---- MODULE Spec2Model ----
(***************************************************************************)
(* Brownout load-balancer simulator: the event kernel (SimulatorKernel,    *)
(* exercised by SimulatorKernel_test.py) and the processor-sharing         *)
(* replica of Replica.py that runs on it, and the autoscaler of            *)
(* plants/autoscaler.py.                                                   *)
(*                                                                         *)
(* Virtual time is modelled on an integer grid: every delay, time slice    *)
(* and drawn service time is a whole number of time units, so sums and     *)
(* differences of times are exact.                                         *)
(***************************************************************************)
EXTENDS Integers, Sequences, FiniteSets, TLC

VARIABLES
    now,              \* SimulatorKernel.now
    events,           \* the kernel's pending events: records [time, seq, cb]
    seqno,            \* number of events created so far (injection-order counter)
    until,            \* the bound given to run(), NoUntil when none was given
    phase,            \* "setup" | "running" | "done" | "crashed"
    eventsExecuted,   \* the tests' eventsExecuted list: one entry per callback invocation
    setupOps,         \* the calls made on the kernel before run()
    created,          \* number of one-shot callbacks the test has created so far
    whenOf,           \* whenOf[n]: the time the test expects its n-th event to run at
    lastOp,           \* the last add/update made on the kernel
    timeSlice,        \* Replica.timeSlice
    activeRequests,   \* Replica._activeRequests: the queue, as request ids
    requests,         \* every Replica.Request created so far, by request id
    activeTime,       \* Replica._activeTime
    activeTimeStarted,\* Replica._activeTimeStarted, NoTime for None
    lastActiveTime,   \* Replica._lastActiveTime
    latestLatencies,  \* Replica._latestLatencies
    replies,          \* the calls replyTo.reply(requestId, headers) made so far
    reentries,        \* number of request() calls made from within replyTo.reply()
    shared,           \* ids of the requests that have been queued together with another
    stepLog,          \* the dispatch and completion steps the replica has run, in order
    controller,       \* AutoScaler.controller: "default", "custom", "up" or "down"
    backends,         \* AutoScaler.backends: each backend's autoScaleStatus, in fleet order
    startedOrder,     \* the backends that are STARTED, in the order in which they became so
    lastCall,         \* the last call made on the autoscaler, or callback of it run
    calls,            \* what that call did, in order: assignments, calls out, the raise
    before            \* the fleet, the order of the starts and the kernel's events when that call began

kernelVars  == <<now, events, seqno, until, phase>>
testVars    == <<eventsExecuted, setupOps, created, whenOf, lastOp>>
replicaVars == <<timeSlice, activeRequests, requests, activeTime, activeTimeStarted,
                 lastActiveTime, latestLatencies, replies, reentries, shared, stepLog>>
scalerVars  == <<controller, backends, startedOrder, lastCall, calls, before>>
vars        == <<kernelVars, testVars, replicaVars, scalerVars>>

(***************************************************************************)
(* Bounds of the model.                                                    *)
(***************************************************************************)
\* a kernel test calls add/update only while fewer than MaxEvents events
\* have been created
MaxEvents == 3
\* virtual time after which the model stops following a run
Horizon == 1200

(***************************************************************************)
(* Values taken from SimulatorKernel_test.py.                              *)
(***************************************************************************)
Period    == 100
TestUntil == 1000
NoUntil   == -1
NoTime    == -1
NoOp      == [op |-> "none", cb |-> "none", delay |-> 0, at |-> 0]

\* no call was made on the autoscaler yet
NoCall == [op |-> "none", arg |-> 0, outcome |-> "none", at |-> 0, depth |-> 0]
\* a run without autoscaler
NoScaler ==
    /\ backends = <<>>
    /\ startedOrder = <<>>
    /\ lastCall = NoCall
    /\ calls = <<>>
    /\ before = [fleet |-> <<>>, order |-> <<>>, events |-> {}]

\* the delays the tests schedule with
Delays == {0, 100, 200}
\* the bounds run() is called with: none, or a time
Untils == {NoUntil, Period, TestUntil}
\* callback identities of the tests: three one-shot callbacks and runPeriodically
OneShots      == {"cbA", "cbB", "cbC"}
\* the tests' callbacks are named in the order in which they are created
CbIndex(cb)   == CASE cb = "cbA" -> 1 [] cb = "cbB" -> 2 [] cb = "cbC" -> 3 [] OTHER -> 0
\* cb is a callback created earlier, or the next one to be created
Usable(cb)    == CbIndex(cb) <= created + 1
Created(cb)   == IF CbIndex(cb) > created THEN CbIndex(cb) ELSE created
TestCallbacks == OneShots \cup {"periodic"}

(***************************************************************************)
(* SimulatorKernel.                                                        *)
(***************************************************************************)
\* the Event add(delay, cb) creates when called at time t as the n-th event
NewEvent(t, n, delay, cb) == [time |-> t + delay, seq |-> n, cb |-> cb]

\* add(delay, cb): always a new event
KernelAdd(evs, t, n, delay, cb) == evs \cup {NewEvent(t, n, delay, cb)}

\* (mutant) update that cancels nothing
UncancelledNone(evs, cb) == evs

\* the events update(delay, cb) leaves pending before it adds: those of other callbacks
Uncancelled(evs, cb) == {e \in evs : e.cb # cb}

\* update(delay, cb): cancel the callback's pending events, then add
KernelUpdate(evs, t, n, delay, cb) == KernelAdd(Uncancelled(evs, cb), t, n, delay, cb)

\* (mutant) ties broken by the latest insertion first
BeforeLifo(e, f) == e.time < f.time \/ (e.time = f.time /\ e.seq > f.seq)

\* the kernel's order of events: (fireTime, sequenceNumber)
Before(e, f) == e.time < f.time \/ (e.time = f.time /\ e.seq < f.seq)

\* the event run() pops next
NextEvent(evs) == CHOOSE e \in evs : \A f \in evs \ {e} : Before(e, f)

\* (mutant) an exclusive upper bound
WithinUntilExclusive(t, u) == u = NoUntil \/ t < u

\* run(until) goes on only while the next event is not past until
WithinUntil(t, u) == u = NoUntil \/ t <= u

\* run() has a next event to execute
Runnable == events # {} /\ WithinUntil(NextEvent(events).time, until)

\* the time run() gives to now when it pops event e
Advance(e) == e.time

(***************************************************************************)
(* SimulatorKernel_test.py: the tests' use of the kernel, generalised to   *)
(* any short sequence of add/update calls followed by run().               *)
(***************************************************************************)
\* the entry a test callback appends to eventsExecuted: sim.now (at), with
\* the event that invoked it and the time the test expects it at (when)
Executed(cb, e, t) == [cb |-> cb, seq |-> e.seq, when |-> whenOf[e.seq], at |-> t]

InitKernel ==
    /\ now = 0
    /\ events = {}
    /\ seqno = 0
    /\ until = NoUntil
    /\ phase = "setup"
    /\ eventsExecuted = <<>>
    /\ setupOps = <<>>
    /\ created = 0
    /\ whenOf = <<>>
    /\ lastOp = NoOp
    /\ timeSlice = 1
    /\ activeRequests = <<>>
    /\ requests = <<>>
    /\ activeTime = 0
    /\ activeTimeStarted = NoTime
    /\ lastActiveTime = 0
    /\ latestLatencies = <<>>
    /\ replies = <<>>
    /\ reentries = 0
    /\ shared = {}
    /\ stepLog = <<>>
    /\ controller = "default"
    /\ NoScaler

\* sim.add(d, cb) before run()
TestAdd(d, cb) ==
    /\ phase = "setup"
    /\ seqno < MaxEvents
    /\ Usable(cb)
    /\ created' = Created(cb)
    /\ events' = KernelAdd(events, now, seqno + 1, d, cb)
    /\ seqno' = seqno + 1
    /\ setupOps' = Append(setupOps, [op |-> "add", cb |-> cb, delay |-> d])
    /\ whenOf' = Append(whenOf, now + d)
    /\ lastOp' = [op |-> "add", cb |-> cb, delay |-> d, at |-> now]
    /\ UNCHANGED <<now, until, phase, eventsExecuted, replicaVars, scalerVars>>

\* sim.update(d, cb) before run()
TestUpdate(d, cb) ==
    /\ phase = "setup"
    /\ seqno < MaxEvents
    /\ Usable(cb)
    /\ created' = Created(cb)
    /\ events' = KernelUpdate(events, now, seqno + 1, d, cb)
    /\ seqno' = seqno + 1
    /\ setupOps' = Append(setupOps, [op |-> "update", cb |-> cb, delay |-> d])
    /\ whenOf' = Append(whenOf, now + d)
    /\ lastOp' = [op |-> "update", cb |-> cb, delay |-> d, at |-> now]
    /\ UNCHANGED <<now, until, phase, eventsExecuted, replicaVars, scalerVars>>

\* runPeriodically(sim, 100, eventsExecuted) called directly, before run()
TestCallPeriodic ==
    /\ phase = "setup"
    /\ \A i \in 1..Len(setupOps) : setupOps[i].op # "call"
    /\ eventsExecuted' = Append(eventsExecuted,
           [cb |-> "periodic", seq |-> 0, when |-> now, at |-> now])
    /\ events' = KernelAdd(events, now, seqno + 1, Period, "periodic")
    /\ seqno' = seqno + 1
    /\ setupOps' = Append(setupOps, [op |-> "call", cb |-> "periodic", delay |-> 0])
    /\ whenOf' = Append(whenOf, now + Period)
    /\ lastOp' = [op |-> "add", cb |-> "periodic", delay |-> Period, at |-> now]
    /\ UNCHANGED <<now, until, phase, created, replicaVars, scalerVars>>

\* sim.run(until = u)
TestRun(u) ==
    /\ phase = "setup"
    /\ phase' = "running"
    /\ until' = u
    /\ lastOp' = NoOp
    /\ UNCHANGED <<now, events, seqno, eventsExecuted, setupOps, created, whenOf, replicaVars, scalerVars>>

\* run() pops the next event and invokes a one-shot callback, which appends
\* sim.now to eventsExecuted and returns
FireOneShot ==
    /\ phase = "running"
    /\ Runnable
    /\ LET e == NextEvent(events) IN
        /\ e.cb \in OneShots
        /\ e.time <= Horizon
        /\ now' = Advance(e)
        /\ eventsExecuted' = Append(eventsExecuted, Executed(e.cb, e, Advance(e)))
        /\ events' = events \ {e}
    /\ lastOp' = NoOp
    /\ UNCHANGED <<seqno, until, phase, setupOps, created, whenOf, replicaVars, scalerVars>>

\* run() pops the next event and invokes a callback that schedules another
\* event from within its execution, with add or with update
FireAndSchedule(d, cb, op) ==
    /\ phase = "running"
    /\ Runnable
    /\ seqno < MaxEvents
    /\ Usable(cb)
    /\ created' = Created(cb)
    /\ LET e == NextEvent(events) IN
        /\ e.cb \in OneShots
        /\ e.time <= Horizon
        /\ now' = Advance(e)
        /\ eventsExecuted' = Append(eventsExecuted, Executed(e.cb, e, Advance(e)))
        /\ events' = IF op = "add"
                     THEN KernelAdd(events \ {e}, Advance(e), seqno + 1, d, cb)
                     ELSE KernelUpdate(events \ {e}, Advance(e), seqno + 1, d, cb)
        /\ lastOp' = [op |-> op, cb |-> cb, delay |-> d, at |-> Advance(e)]
        /\ whenOf' = Append(whenOf, whenOf[e.seq] + d)
    /\ seqno' = seqno + 1
    /\ UNCHANGED <<until, phase, setupOps, replicaVars, scalerVars>>

\* run() pops the next event and invokes runPeriodically, which appends
\* sim.now and re-arms itself with add(period, ...)
FirePeriodic ==
    /\ phase = "running"
    /\ Runnable
    /\ LET e == NextEvent(events) IN
        /\ e.cb = "periodic"
        /\ e.time <= Horizon
        /\ now' = Advance(e)
        /\ eventsExecuted' = Append(eventsExecuted, Executed(e.cb, e, Advance(e)))
        /\ events' = KernelAdd(events \ {e}, Advance(e), seqno + 1, Period, "periodic")
        /\ lastOp' = [op |-> "add", cb |-> "periodic", delay |-> Period, at |-> Advance(e)]
        /\ whenOf' = Append(whenOf, whenOf[e.seq] + Period)
    /\ seqno' = seqno + 1
    /\ UNCHANGED <<until, phase, setupOps, created, replicaVars, scalerVars>>

\* run() returns: the queue is empty or the next event is past until
KernelReturn ==
    /\ phase = "running"
    /\ ~Runnable
    /\ phase' = "done"
    /\ lastOp' = NoOp
    /\ UNCHANGED <<now, events, seqno, until, eventsExecuted, setupOps, created, whenOf, replicaVars, scalerVars>>

NextKernel ==
    \/ \E d \in Delays, cb \in OneShots : TestAdd(d, cb)
    \/ \E d \in Delays, cb \in OneShots : TestUpdate(d, cb)
    \/ TestCallPeriodic
    \/ \E u \in Untils : TestRun(u)
    \/ FireOneShot
    \/ \E d \in Delays, cb \in OneShots, op \in {"add", "update"} : FireAndSchedule(d, cb, op)
    \/ FirePeriodic
    \/ KernelReturn

SpecKernel == InitKernel /\ [][NextKernel]_vars

(***************************************************************************)
(* Replica (Replica.py): processor sharing with a fixed time slice.        *)
(***************************************************************************)
\* bounds of the replica runs
\* requests a run issues at most
MaxRequests == 3
\* requests that replies issue on top of those
MaxReentrant == 1
\* largest service time drawn for a request
MaxService == 2
\* largest time slice a replica is constructed with
MaxSlice == 2
\* largest delay between two arrivals of the open-loop client
MaxGap == 1
\* virtual time after which the model stops following a replica run
MaxTime == 8

\* Replica.reportPeriod
ReportPeriod == 1
\* the client stops issuing requests
Stop == -1

Min(a, b) == IF a <= b THEN a ELSE b

\* drawServiceTime(withOptional): max(normalvariate(mu, sigma), 0), any time >= 0
ServiceTimes(withOptional) == 0..MaxService

\* Replica.getActiveTime() at time t
GetActiveTime(accumulated, started, t) ==
    IF started # NoTime THEN accumulated + (t - started) ELSE accumulated

\* (mutant) request() that activates the scheduler on every call
NeedsActivationAlways(queue) == TRUE

\* request(): "Activate scheduler, if its not active"
NeedsActivation(queue) == Len(queue) = 0

\* _onScheduleRequests: timeToExecuteActiveRequest
TimeToExecute(slice, remaining) == Min(slice, remaining)

\* (mutant) a finished request is put back at the tail of the queue
RequeueTail(rest, id, remaining) == Append(rest, id)

\* _onScheduleRequests: a finished request stays in front, a preempted one
\* goes to the end of the queue
Requeue(rest, id, remaining) ==
    IF remaining = 0 THEN <<id>> \o rest ELSE Append(rest, id)

\* the state a handler of the replica works on: the kernel's queue and the
\* replica's fields; crashed is set when the handler raises an exception
Snapshot ==
    [ events |-> events, seqno |-> seqno, queue |-> activeRequests,
      reqs |-> requests, activeTime |-> activeTime, started |-> activeTimeStarted,
      latencies |-> latestLatencies, replies |-> replies, crashed |-> FALSE,
      log |-> stepLog ]

\* Replica.request(requestId, replyTo, headers) at time t, the service time
\* drawn being s
Request(st, t, withOptional, s) ==
    LET id == Len(st.reqs) + 1
        activate == NeedsActivation(st.queue)
        request == [ requestId |-> id, withOptional |-> withOptional,
                     arrival |-> t, departure |-> NoTime,
                     remainingTime |-> s, serviceTime |-> s ]
    IN  [ st EXCEPT
            !.events = IF activate THEN KernelAdd(@, t, st.seqno + 1, 0, "sched") ELSE @,
            !.seqno  = IF activate THEN @ + 1 ELSE @,
            !.reqs   = Append(@, request),
            !.queue  = Append(@, id) ]

\* an entry of the log of steps. A dispatch step: the request it ran, what
\* is left of it, the queue it leaves. A completion step: the request at the
\* head when it began, what was left of it, the queue it found. id is 0
\* when the step found the queue empty
StepRun(step, id, left, queue, t) ==
    [step |-> step, id |-> id, left |-> left, queue |-> queue, at |-> t]

\* Replica._onScheduleRequests() at time t; popleft() on an empty deque raises
OnScheduleRequests(st, t) ==
    IF Len(st.queue) = 0
    THEN [st EXCEPT !.crashed = TRUE,
                    !.log = Append(@, StepRun("dispatch", 0, 0, <<>>, t))]
    ELSE LET id   == Head(st.queue)
             run  == TimeToExecute(timeSlice, st.reqs[id].remainingTime)
             left == st.reqs[id].remainingTime - run
         IN  [ st EXCEPT
                 !.started = IF @ = NoTime THEN t ELSE @,
                 !.reqs[id].remainingTime = left,
                 !.queue  = Requeue(Tail(st.queue), id, left),
                 !.events = KernelAdd(@, t, st.seqno + 1, run,
                                      IF left = 0 THEN "completed" ELSE "sched"),
                 !.seqno  = @ + 1,
                 !.log    = Append(@, StepRun("dispatch", id, left,
                                              Requeue(Tail(st.queue), id, left), t)) ]

\* what replyTo.reply() does: it returns, or it calls request() on the same
\* replica before returning
NoReentry == [reenter |-> FALSE, withOptional |-> FALSE, s |-> 0]
ReplyBehaviours ==
    {NoReentry} \cup
    { [reenter |-> TRUE, withOptional |-> w, s |-> s] :
          w \in BOOLEAN, s \in 0..MaxService }

\* _onCompleted() reaches its call of replyTo.reply()
ReachesReply(st) == st.started # NoTime /\ Len(st.queue) > 0

\* the log entry of a completion step that begins at time t
Began(st, t) ==
    IF Len(st.queue) = 0 THEN StepRun("completed", 0, 0, <<>>, t)
    ELSE StepRun("completed", Head(st.queue), st.reqs[Head(st.queue)].remainingTime,
                 st.queue, t)

\* Replica._onCompleted() at time t. now - None raises, and so does
\* popleft() on an empty deque, after the utilization fields were updated
OnCompleted(st, t, reply) ==
    IF st.started = NoTime
    THEN [st EXCEPT !.crashed = TRUE,
                    !.log = Append(@, Began(st, t))]
    ELSE LET tracked == [ st EXCEPT !.activeTime = @ + (t - st.started),
                                    !.started = NoTime,
                                    !.log = Append(@, Began(st, t)) ]
         IN  IF Len(tracked.queue) = 0
             THEN [tracked EXCEPT !.crashed = TRUE]
             ELSE LET id == Head(tracked.queue)
                      replied ==
                        [ tracked EXCEPT
                            !.queue = Tail(@),
                            !.reqs[id].departure = t,
                            !.latencies = Append(@, t - tracked.reqs[id].arrival),
                            !.replies = Append(@,
                                [ requestId |-> id,
                                  withOptional |-> tracked.reqs[id].withOptional,
                                  at |-> t ]) ]
                      after == IF reply.reenter
                               THEN Request(replied, t, reply.withOptional, reply.s)
                               ELSE replied
                  IN  IF Len(after.queue) > 0
                      THEN OnScheduleRequests(after, t)
                      ELSE after

\* the handler's effects become the state; an exception ends run()
Commit(st) ==
    /\ events' = st.events
    /\ seqno' = st.seqno
    /\ activeRequests' = st.queue
    /\ requests' = st.reqs
    /\ activeTime' = st.activeTime
    /\ activeTimeStarted' = st.started
    /\ latestLatencies' = st.latencies
    /\ replies' = st.replies
    /\ stepLog' = st.log
    /\ shared' = IF Len(st.queue) >= 2
                 THEN shared \cup {st.queue[i] : i \in 1..Len(st.queue)}
                 ELSE shared
    /\ phase' = IF st.crashed THEN "crashed" ELSE phase

\* the event e popped from the snapshot's queue
Popped(e) == [Snapshot EXCEPT !.events = @ \ {e}]

\* the state after SimulatorKernel() and Replica(sim, timeSlice = q): the
\* constructor runs _runReportLoop() once, which schedules itself
InitReplica ==
    /\ now = 0
    /\ events = {NewEvent(0, 1, ReportPeriod, "report")}
    /\ seqno = 1
    /\ until = NoUntil
    /\ phase = "setup"
    /\ eventsExecuted = <<>>
    /\ setupOps = <<>>
    /\ created = 0
    /\ whenOf = <<>>
    /\ lastOp = NoOp
    /\ timeSlice \in 1..MaxSlice
    /\ activeRequests = <<>>
    /\ requests = <<>>
    /\ activeTime = 0
    /\ activeTimeStarted = NoTime
    /\ lastActiveTime = 0
    /\ latestLatencies = <<>>
    /\ replies = <<>>
    /\ reentries = 0
    /\ shared = {}
    /\ stepLog = <<>>
    /\ controller = "default"
    /\ NoScaler

\* the scenario calls request() directly, before sim.run()
SubmitDirect(withOptional, s) ==
    /\ phase = "setup"
    /\ Len(requests) < MaxRequests
    /\ Commit(Request(Snapshot, now, withOptional, s))
    /\ UNCHANGED <<now, until, testVars, scalerVars, timeSlice, lastActiveTime, reentries>>

\* the client schedules its first arrival after a delay of d, or none, and
\* the scenario calls sim.run()
ClientStart(d) ==
    /\ phase = "setup"
    /\ events' = IF d = Stop THEN events
                 ELSE KernelAdd(events, now, seqno + 1, d, "arrive")
    /\ seqno' = IF d = Stop THEN seqno ELSE seqno + 1
    /\ phase' = "running"
    /\ UNCHANGED <<now, until, testVars, scalerVars, replicaVars>>

\* run() invokes the client's arrival callback: it calls request() and
\* schedules its next arrival after a delay of next, or stops
FireArrive(withOptional, s, next) ==
    /\ phase = "running"
    /\ Runnable
    /\ LET e == NextEvent(events) IN
        /\ e.cb = "arrive"
        /\ e.time <= MaxTime
        /\ Len(requests) < MaxRequests
        /\ now' = Advance(e)
        /\ LET st == Request(Popped(e), Advance(e), withOptional, s) IN
             Commit(IF next = Stop THEN st
                    ELSE [ st EXCEPT
                             !.events = KernelAdd(@, Advance(e), st.seqno + 1, next, "arrive"),
                             !.seqno = @ + 1 ])
    /\ UNCHANGED <<until, testVars, scalerVars, timeSlice, lastActiveTime, reentries>>

\* run() invokes the client's arrival callback when the client has no
\* request left to issue
FireArriveIdle ==
    /\ phase = "running"
    /\ Runnable
    /\ LET e == NextEvent(events) IN
        /\ e.cb = "arrive"
        /\ e.time <= MaxTime
        /\ Len(requests) >= MaxRequests
        /\ now' = Advance(e)
        /\ Commit(Popped(e))
    /\ UNCHANGED <<until, testVars, scalerVars, timeSlice, lastActiveTime, reentries>>

\* run() invokes Replica._runReportLoop()
FireReport ==
    /\ phase = "running"
    /\ Runnable
    /\ LET e == NextEvent(events) IN
        /\ e.cb = "report"
        /\ e.time <= MaxTime
        /\ now' = Advance(e)
        /\ lastActiveTime' = GetActiveTime(activeTime, activeTimeStarted, Advance(e))
        /\ latestLatencies' = <<>>
        /\ events' = KernelAdd(events \ {e}, Advance(e), seqno + 1, ReportPeriod, "report")
        /\ seqno' = seqno + 1
    /\ UNCHANGED <<until, phase, testVars, scalerVars, timeSlice, activeRequests, requests,
                   activeTime, activeTimeStarted, replies, reentries, shared, stepLog>>

\* run() invokes Replica._onScheduleRequests()
FireSchedule ==
    /\ phase = "running"
    /\ Runnable
    /\ LET e == NextEvent(events) IN
        /\ e.cb = "sched"
        /\ e.time <= MaxTime
        /\ now' = Advance(e)
        /\ Commit(OnScheduleRequests(Popped(e), Advance(e)))
    /\ UNCHANGED <<until, testVars, scalerVars, timeSlice, lastActiveTime, reentries>>

\* run() invokes Replica._onCompleted(), whose call of replyTo.reply()
\* behaves as reply
FireCompleted(reply) ==
    /\ phase = "running"
    /\ Runnable
    /\ reply.reenter => Len(requests) < MaxRequests + MaxReentrant
    /\ LET e == NextEvent(events) IN
        /\ e.cb = "completed"
        /\ e.time <= MaxTime
        /\ reply.reenter => ReachesReply(Popped(e))
        /\ now' = Advance(e)
        /\ Commit(OnCompleted(Popped(e), Advance(e), reply))
    /\ reentries' = IF reply.reenter THEN reentries + 1 ELSE reentries
    /\ UNCHANGED <<until, testVars, scalerVars, timeSlice, lastActiveTime>>

NextReplica ==
    \/ \E w \in BOOLEAN : \E s \in ServiceTimes(w) : SubmitDirect(w, s)
    \/ \E d \in (0..MaxGap) \cup {Stop} : ClientStart(d)
    \/ \E w \in BOOLEAN : \E s \in ServiceTimes(w) : \E next \in (0..MaxGap) \cup {Stop} :
          FireArrive(w, s, next)
    \/ FireArriveIdle
    \/ FireReport
    \/ FireSchedule
    \/ \E reply \in ReplyBehaviours : FireCompleted(reply)

SpecReplica == InitReplica /\ [][NextReplica]_vars

(***************************************************************************)
(* AutoScaler (plants/autoscaler.py): the fleet of backends, the scale     *)
(* actions and their completion callbacks. The load balancer and the       *)
(* controller are collaborators: the load balancer calls the drain         *)
(* callback of removeBackend() at once or schedules it on the kernel, and  *)
(* the controller's hooks return the deltas of a script, then 0.           *)
(***************************************************************************)
\* bounds of the autoscaler runs
\* backends registered at most
MaxBackends == 3
\* largest startup delay and largest delay of a drain
MaxDelay == 1
\* largest number of backends scaleBy() is asked to add or remove
MaxDelta == 2
\* hook calls of one handler that the controller answers from its script
MaxScript == 1
\* completion callbacks scheduled at most in a run the model follows
MaxScheduled == 4
\* virtual time after which the model stops following an autoscaler run
ScalerTime == 1

\* BackendStatus
STOPPED  == 1
STARTING == 2
STARTED  == 3
STOPPING == 4

\* AbstractAutoScalerController(controlInterval = 1)
ControlInterval == 1
\* AutoScaler.reportInterval
ReportInterval == 1

\* the deltas a controller hook returns
Answers == {-1, 0, 1}
\* what the hooks return during one handler, call after call
Scripts == [1..MaxScript -> Answers]
\* the controller of the default strategy: every hook returns 0
NoOpScript == [i \in 1..MaxScript |-> 0]
\* what the hooks of the controller c may return: AutoScaler(controller = None)
\* takes an AbstractAutoScalerController, a custom controller decides itself
ScriptsOf(c) == IF c = "default" THEN {NoOpScript} ELSE Scripts
\* what the hooks of the controller c return once the script is over: 0, or
\* for a controller that never stops asking, the same delta for ever
RestOf(c) == CASE c = "up" -> 1 [] c = "down" -> 0 - 1 [] OTHER -> 0
\* startupDelay, fixed or drawn per call
StartupDelays == 0..MaxDelay
\* the load balancer calls the drain callback from within removeBackend()
Sync == -1
\* when the load balancer calls the drain callback: at once, or after a
\* delay, which a handler that also starts a backend shares with the startup
Drains(delay) == {Sync, delay}
\* the interpreters the program runs on order None and numbers differently:
\* under Python 2 None is smaller than every number, under Python 3 the
\* comparison raises TypeError
Pythons == {2, 3}

\* the values scaleBy() and scaleTo() are called with
IntValue(n) == [kind |-> "int", n |-> n]
None   == [kind |-> "None", n |-> 0]
NaN    == [kind |-> "NaN", n |-> 0]
PosInf == [kind |-> "inf", n |-> 1]
NegInf == [kind |-> "inf", n |-> -1]
\* the deltas scaleBy() is called with
Deltas == {IntValue(n) : n \in (0 - MaxDelta)..MaxDelta} \cup {None, NaN, PosInf, NegInf}
\* the targets scaleTo() is called with
Targets == {IntValue(n) : n \in (0 - 1)..MaxBackends} \cup {None, NaN}
\* the interpreters that differ on scaleBy(by)
PythonsFor(by) == IF by = None THEN Pythons ELSE {2}

\* the callbacks the autoscaler registers with the kernel
Callback(name, b) == [name |-> name, b |-> b]

\* [backend for backend in self.backends if backend.autoScaleStatus == s],
\* as positions in the fleet
WithStatus(fleet, s) == {i \in 1..Len(fleet) : fleet[i] = s}

\* (mutant) scaleUp() that also chooses from the backends that are STOPPING
StartableOrStopping(fleet) == WithStatus(fleet, STOPPED) \cup WithStatus(fleet, STOPPING)

\* (mutant) scaleUp() that also chooses from the backends being drained,
\* after those that are STOPPED
StartableOrDrained(fleet) ==
    IF WithStatus(fleet, STOPPED) # {} THEN WithStatus(fleet, STOPPED)
    ELSE WithStatus(fleet, STOPPING)

\* scaleUp(): the backends it chooses from
Startable(fleet) == WithStatus(fleet, STOPPED)

\* (mutant) scaleDown() that also chooses from the backends that are STARTING
StoppableOrStarting(fleet) == WithStatus(fleet, STARTED) \cup WithStatus(fleet, STARTING)

\* scaleDown(): the backends it chooses from
Stoppable(fleet) == WithStatus(fleet, STARTED)

\* (mutant) the comprehension of STOPPING backends finds none
CountNoStopping(fleet, s) == IF s = STOPPING THEN 0 ELSE Cardinality(WithStatus(fleet, s))

\* getStatus(): len([backend for backend in self.backends if ... == s])
Count(fleet, s) == Cardinality(WithStatus(fleet, s))

\* getStatus(): the dict it returns, as <<numStopped, numStarting, numStarted, numStopping>>
GetStatus(fleet) ==
    <<Count(fleet, STOPPED), Count(fleet, STARTING), Count(fleet, STARTED), Count(fleet, STOPPING)>>

\* getStatus(): assert numBackends == numStarting + numStarted + numStopped + numStopping
StatusAsserted(fleet) ==
    Len(fleet) = Count(fleet, STARTING) + Count(fleet, STARTED)
                 + Count(fleet, STOPPED) + Count(fleet, STOPPING)

\* (mutant) the last of the candidates is taken
FirstOfReversed(S) == CHOOSE i \in S : \A j \in S : j <= i

\* [ ... ][0]: the first of the candidates in fleet order
FirstOf(S) == CHOOSE i \in S : \A j \in S : i <= j

\* (mutant) the first of the candidates is taken
LastOfReversed(S) == CHOOSE i \in S : \A j \in S : i <= j

\* [ ... ][-1]: the last of the candidates in fleet order
LastOf(S) == CHOOSE i \in S : \A j \in S : j <= i

\* one step of a handler: an assignment of autoScaleStatus ("set"), a call
\* out ("lb.addBackend", "lb.removeBackend", "sim.add", a controller hook
\* with the status it is given and the delta it returns), or the raise
Step(op, by, b, from, to, status) ==
    [op |-> op, by |-> by, b |-> b, from |-> from, to |-> to, status |-> status]

\* the state a handler of the autoscaler works on at time t: the kernel's
\* queue, the fleet, what the collaborators will do, and the steps so far
Handler(evs, t, script, delay, drain) ==
    [ fleet |-> backends, events |-> evs, seqno |-> seqno, order |-> startedOrder,
      script |-> script, answer |-> 0, steps |-> <<>>, raised |-> "none",
      t |-> t, delay |-> delay, drain |-> drain,
      rest |-> RestOf(controller), depth |-> 0, deepest |-> 0 ]

\* raise
Raise(sc, error, by) ==
    [sc EXCEPT !.raised = error,
               !.steps = Append(@, Step("raise", by, 0, 0, 0, <<>>))]

\* backend.autoScaleStatus = s, assigned by handler by
SetStatus(sc, b, s, by) ==
    [sc EXCEPT !.fleet[b] = s,
               !.order = IF s = STARTED THEN Append(@, b)
                         ELSE SelectSeq(@, LAMBDA x : x # b),
               !.steps = Append(@, Step("set", by, b, sc.fleet[b], s, <<>>))]

\* self.sim.add(delay, callback)
SimAdd(sc, delay, cb, by) ==
    [sc EXCEPT !.events = KernelAdd(@, sc.t, sc.seqno + 1, delay, cb),
               !.seqno = @ + 1,
               !.steps = Append(@, Step("sim.add", by, cb.b, 0, delay, <<>>))]

\* action = self.controller.<hook>(...): onStatus is given getStatus(),
\* whose assertion may fail
Ask(sc, hook, by) ==
    IF sc.raised # "none" THEN sc
    ELSE IF hook = "onStatus" /\ ~StatusAsserted(sc.fleet)
    THEN Raise(sc, "AssertionError", by)
    ELSE LET delta == IF sc.script = <<>> THEN sc.rest ELSE Head(sc.script) IN
         [sc EXCEPT !.script = IF @ = <<>> THEN @ ELSE Tail(@),
                    !.answer = delta,
                    !.steps = Append(@, Step(hook, by, 0, 0, delta,
                                             IF hook = "onStatus" THEN GetStatus(sc.fleet)
                                             ELSE <<>>))]

\* scaleUp() or scaleDown() is entered: one more call of them in progress
\* in the recursion scaleBy -> scaleUp/scaleDown -> onStatus -> scaleBy
Enter(sc) ==
    [sc EXCEPT !.depth = @ + 1,
               !.deepest = IF sc.depth + 1 > @ THEN sc.depth + 1 ELSE @]

\* scaleUp() or scaleDown() returns; an exception unwinds every call
Leave(sc) == IF sc.raised # "none" THEN sc ELSE [sc EXCEPT !.depth = @ - 1]

RECURSIVE ScaleBy(_, _), ScaleUp(_), ScaleDown(_), ShutdownCompleted(_, _)

\* (mutant) scaleBy() that leaves its loop after one scale action
ScaleByOnce(sc, by) ==
    IF sc.raised # "none" \/ by = 0 THEN sc
    ELSE IF by > 0 THEN ScaleUp(sc)
    ELSE ScaleDown(sc)

\* AutoScaler.scaleBy(by), by an integer
ScaleBy(sc, by) ==
    IF sc.raised # "none" \/ by = 0 THEN sc
    ELSE IF by > 0 THEN ScaleBy(ScaleUp(sc), by - 1)
    ELSE ScaleBy(ScaleDown(sc), by + 1)

\* AutoScaler.scaleUp()
ScaleUp(sc) ==
    IF sc.raised # "none" THEN sc
    ELSE IF Startable(sc.fleet) = {}
    THEN Raise(Enter(sc), "RuntimeError", "scaleUp")
    ELSE LET backendToStart == FirstOf(Startable(sc.fleet))
             starting == SetStatus(Enter(sc), backendToStart, STARTING, "scaleUp")
             added    == SimAdd(starting, sc.delay,
                                Callback("startupCompleted", backendToStart), "scaleUp")
             asked    == Ask(added, "onStatus", "scaleUp")
         IN  Leave(ScaleBy(asked, asked.answer))

\* shutdownCompleted() of scaleDown(), for backendToStop = b
ShutdownCompleted(sc, b) ==
    IF sc.raised # "none" THEN sc
    ELSE LET stopped == SetStatus(sc, b, STOPPED, "shutdownCompleted")
             asked   == Ask(stopped, "onStatus", "shutdownCompleted")
         IN  ScaleBy(asked, asked.answer)

\* AutoScaler.scaleDown(); loadBalancer.removeBackend(backend, callback)
\* calls the callback before it returns or has the kernel call it later
ScaleDown(sc) ==
    IF sc.raised # "none" THEN sc
    ELSE IF Stoppable(sc.fleet) = {}
    THEN Raise(Enter(sc), "RuntimeError", "scaleDown")
    ELSE LET backendToStop == LastOf(Stoppable(sc.fleet))
             stopping == SetStatus(Enter(sc), backendToStop, STOPPING, "scaleDown")
             called   == [stopping EXCEPT !.steps =
                             Append(@, Step("lb.removeBackend", "scaleDown",
                                            backendToStop, 0, 0, <<>>))]
             removed  == IF sc.drain = Sync
                         THEN ShutdownCompleted(called, backendToStop)
                         ELSE SimAdd(called, sc.drain,
                                     Callback("shutdownCompleted", backendToStop),
                                     "lb.removeBackend")
             asked    == Ask(removed, "onStatus", "scaleDown")
         IN  Leave(ScaleBy(asked, asked.answer))

\* (mutant) startupCompleted() that asks the controller before it registers
\* the backend with the load balancer
StartupCompletedLate(sc, b) ==
    LET started == SetStatus(sc, b, STARTED, "startupCompleted")
        asked   == Ask(started, "onStatus", "startupCompleted")
        added   == [asked EXCEPT !.steps =
                       Append(@, Step("lb.addBackend", "startupCompleted", b, 0, 0, <<>>))]
    IN  ScaleBy(added, added.answer)

\* startupCompleted() of scaleUp(), for backendToStart = b
StartupCompleted(sc, b) ==
    LET started == SetStatus(sc, b, STARTED, "startupCompleted")
        added   == [started EXCEPT !.steps =
                       Append(@, Step("lb.addBackend", "startupCompleted", b, 0, 0, <<>>))]
        asked   == Ask(added, "onStatus", "startupCompleted")
    IN  ScaleBy(asked, asked.answer)

RECURSIVE ScaleUpForever(_), ScaleDownForever(_), ScaleToLoop(_, _)

\* scaleBy(by): "while by>0" with by = inf, which by -= 1 leaves at inf
ScaleUpForever(sc) == IF sc.raised # "none" THEN sc ELSE ScaleUpForever(ScaleUp(sc))

\* scaleBy(by): "while by<0" with by = -inf
ScaleDownForever(sc) == IF sc.raised # "none" THEN sc ELSE ScaleDownForever(ScaleDown(sc))

\* AutoScaler.scaleBy(by) for any value: NaN passes the three comparisons,
\* None passes "by == 0" and then is compared with 0
ScaleByValue(sc, by, python) ==
    CASE by.kind = "int" -> ScaleBy(sc, by.n)
      [] by.kind = "NaN" -> sc
      [] by.kind = "inf" -> IF by.n > 0 THEN ScaleUpForever(sc) ELSE ScaleDownForever(sc)
      [] by.kind = "None" ->
           IF python = 2
           THEN LET down == ScaleDown(sc) IN
                IF down.raised # "none" THEN down ELSE Raise(down, "TypeError", "scaleBy")
           ELSE Raise(sc, "TypeError", "scaleBy")

\* (mutant) scaleTo() that scales by one backend and stops
ScaleToOnce(sc, numReplicas) ==
    IF sc.raised # "none" THEN sc
    ELSE LET status == GetStatus(sc.fleet)
             numReplicasThatWillBeStarted == status[STARTING] + status[STARTED]
         IN  IF numReplicas > numReplicasThatWillBeStarted THEN ScaleUp(sc)
             ELSE IF numReplicas < numReplicasThatWillBeStarted THEN ScaleDown(sc)
             ELSE sc

\* scaleTo(): the loop "while True"
ScaleToLoop(sc, numReplicas) ==
    IF sc.raised # "none" THEN sc
    ELSE IF ~StatusAsserted(sc.fleet) THEN Raise(sc, "AssertionError", "scaleTo")
    ELSE LET status == GetStatus(sc.fleet)
             numReplicasThatWillBeStarted == status[STARTING] + status[STARTED]
         IN  IF numReplicas > numReplicasThatWillBeStarted
             THEN ScaleToLoop(ScaleUp(sc), numReplicas)
             ELSE IF numReplicas < numReplicasThatWillBeStarted
             THEN ScaleToLoop(ScaleDown(sc), numReplicas)
             ELSE sc

\* (mutant) scaleTo() without its tests of numReplicas
ScaleToUnchecked(sc, numReplicas) == ScaleToLoop(sc, numReplicas.n)

\* AutoScaler.scaleTo(numReplicas)
ScaleTo(sc, numReplicas) ==
    IF numReplicas.kind \in {"None", "NaN"} THEN sc
    ELSE IF numReplicas.n < 0 THEN Raise(sc, "RuntimeError", "scaleTo")
    ELSE ScaleToLoop(sc, numReplicas.n)

\* the handler's effects become the state; an exception ends the run
Settle(start, sc, op, arg) ==
    /\ backends' = sc.fleet
    /\ startedOrder' = sc.order
    /\ events' = sc.events
    /\ seqno' = sc.seqno
    /\ calls' = sc.steps
    /\ lastCall' = [op |-> op, arg |-> arg,
                    outcome |-> IF sc.raised = "none" THEN "returned" ELSE sc.raised,
                    at |-> sc.t, depth |-> sc.deepest]
    /\ before' = [fleet |-> start.fleet, order |-> start.order, events |-> start.events]
    /\ phase' = IF sc.raised = "none" THEN phase ELSE "crashed"

\* how many times the loop `name` of period `interval` has run so far
Rounds(name, interval) ==
    IF \E e \in events : e.cb.name = name
    THEN ((CHOOSE e \in events : e.cb.name = name).time \div interval) - 1
    ELSE 0

\* the completion callbacks scheduled so far: the events created, less the
\* three of the constructor and those with which the loops re-armed themselves
Scheduled ==
    seqno - 3 - Rounds("runReportLoop", ReportInterval)
              - Rounds("runControlLoop", ControlInterval)

\* the model follows the run: calls are made on the autoscaler at any point
\* of it, which includes the point before its first event
Callable == phase = "running" /\ Scheduled < MaxScheduled

\* the model follows the run: run() pops event e
Followed(e) == e.time <= ScalerTime /\ Scheduled < MaxScheduled

\* the state after SimulatorKernel() and AutoScaler(sim, loadBalancer): the
\* constructor schedules the report loop, a first onStatus and the control loop
Constructed ==
    /\ now = 0
    /\ events = { NewEvent(0, 1, ReportInterval, Callback("runReportLoop", 0)),
                  NewEvent(0, 2, 0, Callback("onStatus", 0)),
                  NewEvent(0, 3, ControlInterval, Callback("runControlLoop", 0)) }
    /\ seqno = 3
    /\ until = NoUntil
    /\ phase = "setup"
    /\ eventsExecuted = <<>>
    /\ setupOps = <<>>
    /\ created = 0
    /\ whenOf = <<>>
    /\ lastOp = NoOp
    /\ timeSlice = 1
    /\ activeRequests = <<>>
    /\ requests = <<>>
    /\ activeTime = 0
    /\ activeTimeStarted = NoTime
    /\ lastActiveTime = 0
    /\ latestLatencies = <<>>
    /\ replies = <<>>
    /\ reentries = 0
    /\ shared = {}
    /\ stepLog = <<>>
    /\ NoScaler

\* with the controller of the default strategy, or a custom one whose hooks
\* return deltas for a while
InitScaler ==
    /\ Constructed
    /\ controller \in {"default", "custom"}

\* AutoScaler.addBackend(backend), backend being a new back-end server: the
\* scenario registers the fleet before it runs the simulation
AddBackend ==
    /\ phase = "setup"
    /\ Len(backends) < MaxBackends
    /\ backends' = Append(backends, STOPPED)
    /\ calls' = <<Step("set", "addBackend", Len(backends) + 1, 0, STOPPED, <<>>)>>
    /\ lastCall' = [op |-> "addBackend", arg |-> IntValue(Len(backends) + 1),
                    outcome |-> "returned", at |-> now, depth |-> 0]
    /\ before' = [fleet |-> backends, order |-> startedOrder, events |-> events]
    /\ UNCHANGED <<kernelVars, testVars, replicaVars, controller, startedOrder>>

\* the scenario calls sim.run()
ScalerRun ==
    /\ phase = "setup"
    /\ phase' = "running"
    /\ UNCHANGED <<now, events, seqno, until, testVars, replicaVars, scalerVars>>

\* scaleUp() is called, by the scenario or from a callback of the controller
CallScaleUp(script, delay, drain) ==
    /\ Callable
    /\ LET start == Handler(events, now, script, delay, drain) IN
         Settle(start, ScaleUp(start), "scaleUp", IntValue(0))
    /\ UNCHANGED <<now, until, testVars, replicaVars, controller>>

\* scaleDown() is called
CallScaleDown(script, delay, drain) ==
    /\ Callable
    /\ LET start == Handler(events, now, script, delay, drain) IN
         Settle(start, ScaleDown(start), "scaleDown", IntValue(0))
    /\ UNCHANGED <<now, until, testVars, replicaVars, controller>>

\* scaleBy(by) is called
CallScaleBy(by, python, script, delay, drain) ==
    /\ Callable
    /\ LET start == Handler(events, now, script, delay, drain) IN
         Settle(start, ScaleByValue(start, by, python), "scaleBy", by)
    /\ UNCHANGED <<now, until, testVars, replicaVars, controller>>

\* scaleTo(numReplicas) is called
CallScaleTo(numReplicas, script, delay, drain) ==
    /\ Callable
    /\ LET start == Handler(events, now, script, delay, drain) IN
         Settle(start, ScaleTo(start, numReplicas), "scaleTo", numReplicas)
    /\ UNCHANGED <<now, until, testVars, replicaVars, controller>>

\* run() invokes the constructor's lambda: controller.onStatus(getStatus()),
\* whose result is dropped
FireOnStatus(script) ==
    /\ phase = "running"
    /\ Runnable
    /\ LET e == NextEvent(events) IN
        /\ e.cb.name = "onStatus"
        /\ Followed(e)
        /\ now' = Advance(e)
        /\ LET start == Handler(events \ {e}, Advance(e), script, 0, Sync) IN
             Settle(start, Ask(start, "onStatus", "lambda"), "lambda", IntValue(0))
    /\ UNCHANGED <<until, testVars, replicaVars, controller>>

\* run() invokes AutoScaler.runReportLoop()
FireReportLoop ==
    /\ phase = "running"
    /\ Runnable
    /\ LET e == NextEvent(events) IN
        /\ e.cb.name = "runReportLoop"
        /\ Followed(e)
        /\ now' = Advance(e)
        /\ LET start == Handler(events \ {e}, Advance(e), <<>>, 0, Sync)
               status == IF StatusAsserted(start.fleet) THEN start
                         ELSE Raise(start, "AssertionError", "runReportLoop")
           IN  Settle(start,
                      IF status.raised # "none" THEN status
                      ELSE SimAdd(status, ReportInterval, e.cb, "runReportLoop"),
                      "runReportLoop", IntValue(0))
    /\ UNCHANGED <<until, testVars, replicaVars, controller>>

\* run() invokes AutoScaler.runControlLoop()
FireControlLoop(script, delay, drain) ==
    /\ phase = "running"
    /\ Runnable
    /\ LET e == NextEvent(events) IN
        /\ e.cb.name = "runControlLoop"
        /\ Followed(e)
        /\ now' = Advance(e)
        /\ LET start  == Handler(events \ {e}, Advance(e), script, delay, drain)
               asked  == Ask(start, "onControlPeriod", "runControlLoop")
               scaled == ScaleBy(asked, asked.answer)
           IN  Settle(start,
                      IF scaled.raised # "none" THEN scaled
                      ELSE SimAdd(scaled, ControlInterval, e.cb, "runControlLoop"),
                      "runControlLoop", IntValue(0))
    /\ UNCHANGED <<until, testVars, replicaVars, controller>>

\* run() invokes startupCompleted() of a scaleUp()
FireStartupCompleted(script, delay, drain) ==
    /\ phase = "running"
    /\ Runnable
    /\ LET e == NextEvent(events) IN
        /\ e.cb.name = "startupCompleted"
        /\ Followed(e)
        /\ now' = Advance(e)
        /\ LET start == Handler(events \ {e}, Advance(e), script, delay, drain) IN
             Settle(start, StartupCompleted(start, e.cb.b), "startupCompleted",
                    IntValue(e.cb.b))
    /\ UNCHANGED <<until, testVars, replicaVars, controller>>

\* run() invokes the drain callback the load balancer scheduled:
\* shutdownCompleted() of a scaleDown()
FireShutdownCompleted(script, delay, drain) ==
    /\ phase = "running"
    /\ Runnable
    /\ LET e == NextEvent(events) IN
        /\ e.cb.name = "shutdownCompleted"
        /\ Followed(e)
        /\ now' = Advance(e)
        /\ LET start == Handler(events \ {e}, Advance(e), script, delay, drain) IN
             Settle(start, ShutdownCompleted(start, e.cb.b), "shutdownCompleted",
                    IntValue(e.cb.b))
    /\ UNCHANGED <<until, testVars, replicaVars, controller>>

NextScaler ==
    \/ AddBackend
    \/ ScalerRun
    \/ \E script \in ScriptsOf(controller), delay \in StartupDelays : \E drain \in Drains(delay) :
          CallScaleUp(script, delay, drain)
    \/ \E script \in ScriptsOf(controller), delay \in StartupDelays : \E drain \in Drains(delay) :
          CallScaleDown(script, delay, drain)
    \/ \E by \in Deltas : \E python \in PythonsFor(by) :
          \E script \in ScriptsOf(controller), delay \in StartupDelays : \E drain \in Drains(delay) :
             CallScaleBy(by, python, script, delay, drain)
    \/ \E numReplicas \in Targets :
          \E script \in ScriptsOf(controller), delay \in StartupDelays : \E drain \in Drains(delay) :
             CallScaleTo(numReplicas, script, delay, drain)
    \/ \E script \in ScriptsOf(controller) : FireOnStatus(script)
    \/ FireReportLoop
    \/ \E script \in ScriptsOf(controller), delay \in StartupDelays : \E drain \in Drains(delay) :
          FireControlLoop(script, delay, drain)
    \/ \E script \in ScriptsOf(controller), delay \in StartupDelays : \E drain \in Drains(delay) :
          FireStartupCompleted(script, delay, drain)
    \/ \E script \in ScriptsOf(controller), delay \in StartupDelays : \E drain \in Drains(delay) :
          FireShutdownCompleted(script, delay, drain)

SpecScaler == InitScaler /\ [][NextScaler]_vars

\* with a controller that, after the deltas of the script, never stops
\* asking for one more ("up") or one less ("down") backend
InitCascade ==
    /\ Constructed
    /\ controller \in {"up", "down"}

SpecCascade == InitCascade /\ [][NextScaler]_vars

(***************************************************************************)
(* Claims about the kernel, checked under SpecKernel.                      *)
(***************************************************************************)
\* the times at which the callbacks ran, in order (the tests' eventsExecuted)
ExecutedTimes == [i \in 1..Len(eventsExecuted) |-> eventsExecuted[i].at]

\* entry x was executed before entry y in the kernel's order (fireTime, insertion)
InOrder(x, y) == x.at < y.at \/ (x.at = y.at /\ x.seq < y.seq)

\* C1: callbacks are invoked in increasing order of (fireTime, insertion
\* order): each callback observes now equal to the time it was scheduled
\* for, events of equal fireTime run in the order they were scheduled, and
\* now never decreases from one invocation to the next.
C1_FiringOrder ==
    \A i \in 1..Len(eventsExecuted) :
        /\ eventsExecuted[i].at = eventsExecuted[i].when
        /\ i > 1 => /\ InOrder(eventsExecuted[i - 1], eventsExecuted[i])
                    /\ eventsExecuted[i - 1].at <= eventsExecuted[i].at

\* test_add_events has run to its end: the events added at 0, 100, 200 ran
\* at 0, 100, 200
C1_Witness ==
    /\ phase = "done"
    /\ setupOps = << [op |-> "add", cb |-> "cbA", delay |-> 0],
                     [op |-> "add", cb |-> "cbB", delay |-> 100],
                     [op |-> "add", cb |-> "cbC", delay |-> 200] >>
    /\ ExecutedTimes = <<0, 100, 200>>

\* two events scheduled for the same time have both run
C1_TieWitness ==
    \E i \in 1..Len(eventsExecuted) : \E j \in 1..Len(eventsExecuted) :
        /\ i < j
        /\ eventsExecuted[i].at = eventsExecuted[j].at
        /\ eventsExecuted[i].seq > 0

\* C2: run(until = T) executes every pending or newly scheduled event whose
\* fireTime is <= T, the ones at exactly T included, and none whose fireTime
\* is > T; runPeriodically called once at time 0 and re-arming itself every
\* 100, run with until = 1000, executes 11 times, at 0, 100, ..., 1000.
C2_RunUntil ==
    /\ \A i \in 1..Len(eventsExecuted) :
          eventsExecuted[i].seq > 0 => (until = NoUntil \/ eventsExecuted[i].at <= until)
    /\ (phase = "done" /\ until # NoUntil) => \A e \in events : e.time > until
    /\ (phase = "done" /\ until = NoUntil) => events = {}
    /\ ( /\ phase = "done"
         /\ until = TestUntil
         /\ setupOps = << [op |-> "call", cb |-> "periodic", delay |-> 0] >> )
       => ExecutedTimes = [i \in 1..(TestUntil \div Period + 1) |-> (i - 1) * Period]

\* test_run_until has run to its end: 11 executions, the last one at 1000
C2_Witness ==
    /\ phase = "done"
    /\ until = TestUntil
    /\ setupOps = << [op |-> "call", cb |-> "periodic", delay |-> 0] >>
    /\ Len(eventsExecuted) = 11
    /\ eventsExecuted[11].at = 1000

\* C3: update(d, cb) cancels every event pending for cb and schedules cb
\* once, at now + d; after add(0, cb), update(100, cb) and run(), cb has run
\* exactly once, at time 100, and never at time 0.
C3_UpdateReplaces ==
    /\ lastOp.op = "update" =>
          /\ Cardinality({e \in events : e.cb = lastOp.cb}) = 1
          /\ \A e \in events : e.cb = lastOp.cb => e.time = lastOp.at + lastOp.delay
    /\ ( /\ phase = "done"
         /\ seqno = 2
         /\ setupOps = << [op |-> "add", cb |-> "cbA", delay |-> 0],
                          [op |-> "update", cb |-> "cbA", delay |-> 100] >> )
       => ExecutedTimes = <<100>>

\* test_update_event has run to its end: one execution, at 100
C3_Witness ==
    /\ phase = "done"
    /\ seqno = 2
    /\ setupOps = << [op |-> "add", cb |-> "cbA", delay |-> 0],
                     [op |-> "update", cb |-> "cbA", delay |-> 100] >>
    /\ Len(eventsExecuted) = 1
    /\ eventsExecuted[1].cb = "cbA"
    /\ eventsExecuted[1].at = 100

(***************************************************************************)
(* Claims about the replica, checked under SpecReplica.                    *)
(***************************************************************************)
RequestIds == 1..Len(requests)

\* the replica's scheduling events pending in the kernel
SchedulingEvents == {e \in events : e.cb \in {"sched", "completed"}}

RECURSIVE SumTo(_, _)
SumTo(f, n) == IF n = 0 THEN 0 ELSE f[n] + SumTo(f, n - 1)

\* service consumed so far, over all requests ever submitted
Consumed ==
    SumTo([i \in RequestIds |-> requests[i].serviceTime - requests[i].remainingTime],
          Len(requests))

\* drawn service time of the requests completed so far
CompletedService ==
    SumTo([i \in RequestIds |->
              IF requests[i].departure # NoTime THEN requests[i].serviceTime ELSE 0],
          Len(requests))

\* number of reply() calls made for request id
NumReplies(id) == Cardinality({i \in 1..Len(replies) : replies[i].requestId = id})

\* run() has ended with an exception, or only the report loop is left to run
RunOver ==
    \/ phase = "crashed"
    \/ phase = "running" /\ \A e \in events : e.cb = "report"

\* the next thing run() does is a dispatch step or a completion step
StepBegins ==
    /\ phase = "running"
    /\ events # {}
    /\ NextEvent(events).cb \in {"sched", "completed"}

\* C4: while no request() was issued from the replica's own reply delivery,
\* between kernel events a non-empty queue has exactly one scheduling event
\* (_onScheduleRequests or _onCompleted) pending, and an empty queue none.
C4_OneSchedulingEvent ==
    reentries = 0 =>
        IF Len(activeRequests) > 0
        THEN Cardinality(SchedulingEvents) = 1
        ELSE SchedulingEvents = {}

\* three requests are queued with one scheduling event pending, after an
\* earlier dispatch step has preempted one of them
C4_Witness ==
    /\ reentries = 0
    /\ Len(activeRequests) = 3
    /\ Cardinality(SchedulingEvents) = 1
    /\ \E id \in RequestIds :
          /\ requests[id].remainingTime > 0
          /\ requests[id].remainingTime < requests[id].serviceTime

\* C5: every accepted request is replied to exactly once, at or after its
\* arrival and with the withOptional it carried; once the run is over no
\* accepted request is left without its reply.
C5_RepliedExactlyOnce ==
    /\ \A i \in 1..Len(replies) :
          /\ replies[i].at >= requests[replies[i].requestId].arrival
          /\ replies[i].withOptional = requests[replies[i].requestId].withOptional
    /\ \A id \in RequestIds : NumReplies(id) <= 1
    /\ RunOver => \A id \in RequestIds : NumReplies(id) = 1

\* the statement of C5 on the runs in which reply() never calls request()
C5_NoReentry == reentries = 0 => C5_RepliedExactlyOnce

\* C6: whenever a dispatch step or a completion step begins, the service
\* consumed so far equals the time the replica has spent busy.
C6_WorkConserved ==
    StepBegins =>
        Consumed = GetActiveTime(activeTime, activeTimeStarted, NextEvent(events).time)

\* the statement of C6 on the runs in which reply() never calls request()
C6_NoReentry == reentries = 0 => C6_WorkConserved

\* the first two requests were submitted at time 0, the second while the
\* first was queued; both have departed and no other request was submitted
\* before that
TwoAtTimeZero ==
    /\ Len(requests) >= 2
    /\ requests[1].arrival = 0
    /\ requests[2].arrival = 0
    /\ {1, 2} \subseteq shared
    /\ requests[1].departure # NoTime
    /\ requests[2].departure # NoTime
    /\ \A id \in RequestIds :
          id > 2 => /\ requests[id].arrival >= requests[1].departure
                    /\ requests[id].arrival >= requests[2].departure

\* C7, as stated: the second-submitted of two requests submitted at time 0
\* departs at s1 + s2, whatever the time slice.
C7_SecondDepartsLast ==
    TwoAtTimeZero =>
        requests[2].departure = requests[1].serviceTime + requests[2].serviceTime

\* C7, amended: the later of the two departures is at s1 + s2, whatever the
\* time slice; the second-submitted request departs then or earlier.
C7_LastDeparture ==
    TwoAtTimeZero =>
        LET total == requests[1].serviceTime + requests[2].serviceTime IN
        /\ requests[1].departure <= total
        /\ requests[2].departure <= total
        /\ requests[1].departure = total \/ requests[2].departure = total

\* two requests of service times 2 and 1 were served with a time slice of 1:
\* the second departed at 2, the first at 3
C7_Witness ==
    /\ TwoAtTimeZero
    /\ timeSlice = 1
    /\ requests[1].serviceTime = 2
    /\ requests[2].serviceTime = 1
    /\ requests[2].departure = 2
    /\ requests[1].departure = 3

\* C8: whenever the queue has drained, getActiveTime() equals the sum of the
\* drawn service times of the requests completed so far.
C8_BusyTimeWhenDrained ==
    Len(activeRequests) = 0 =>
        GetActiveTime(activeTime, activeTimeStarted, now) = CompletedService

\* the statement of C8 on the runs in which reply() never calls request()
C8_NoReentry == reentries = 0 => C8_BusyTimeWhenDrained

\* C9: a request that was alone in the queue from its arrival to its
\* departure has a latency equal to its drawn service time.
C9_LatencyAlone ==
    \A id \in RequestIds :
        (requests[id].departure # NoTime /\ id \notin shared) =>
            requests[id].departure - requests[id].arrival = requests[id].serviceTime

\* the statement of C9 on the runs in which reply() never calls request()
C9_NoReentry == reentries = 0 => C9_LatencyAlone

\* C10: remainingTime is never negative and is exactly 0 when the
\* completion step stamps the request's departure.
C10_RemainingTime ==
    \A id \in RequestIds :
        /\ requests[id].remainingTime >= 0
        /\ requests[id].remainingTime <= requests[id].serviceTime
        /\ requests[id].departure # NoTime => requests[id].remainingTime = 0

\* the statement of C10 on the runs in which reply() never calls request()
C10_NoReentry == reentries = 0 => C10_RemainingTime

\* the steps of the log that ran request id
DispatchesOf(id) == {i \in 1..Len(stepLog) : stepLog[i].step = "dispatch" /\ stepLog[i].id = id}
CompletionsOf(id) == {i \in 1..Len(stepLog) : stepLog[i].step = "completed" /\ stepLog[i].id = id}

\* the quanta a request of service time s needs: one dispatch step each
QuantaOf(s) == IF s = 0 THEN 1 ELSE (s + timeSlice - 1) \div timeSlice

\* a completion step whose reply() calls request() on the replica, the
\* completed request having been alone in the queue; the first to do so
ReentersOnEmptyQueue ==
    /\ reentries = 0
    /\ reentries' = 1
    /\ Len(activeRequests) = 1

\* C21: when reply() calls request() on the same replica during the
\* completion step, the queue being empty, exactly one dispatch-or-completion
\* event is pending after the step
C21_OneEventAfterReentry ==
    [][ReentersOnEmptyQueue => Cardinality(SchedulingEvents') = 1]_vars

\* C21, its consequence: every request is dispatched once per quantum and
\* its completion step fires once, and no step finds the queue empty
C21_ServedOnce ==
    /\ \A id \in RequestIds :
          /\ Cardinality(DispatchesOf(id)) <= QuantaOf(requests[id].serviceTime)
          /\ Cardinality(CompletionsOf(id)) <= 1
    /\ \A i \in 1..Len(stepLog) : stepLog[i].id # 0

\* the same, on runs without a request() issued from a reply()
C21_NoReentry == reentries = 0 => C21_ServedOnce

\* what the code does: request() adds a dispatch event and _onCompleted()
\* dispatches as well, so that two events are pending after the step
C21_TwoEventsAfterReentry ==
    [][ReentersOnEmptyQueue => Cardinality(SchedulingEvents') = 2]_vars

\* the completion steps of the log
Completions == {i \in 1..Len(stepLog) : stepLog[i].step = "completed"}

\* C22: whenever the completion step fires, the queue is not empty and the
\* request at its head has remainingTime 0: it is the request the
\* immediately preceding dispatch step brought to 0, whatever arrived since
C22_CompletesTheDispatched ==
    \A i \in Completions :
        /\ stepLog[i].id # 0
        /\ stepLog[i].left = 0
        /\ i > 1
        /\ stepLog[i - 1].step = "dispatch"
        /\ stepLog[i - 1].id = stepLog[i].id
        /\ stepLog[i - 1].left = 0

\* the same, on runs without a request() issued from a reply()
C22_NoReentry == reentries = 0 => C22_CompletesTheDispatched

\* a completion step found two requests behind the one it completed, which
\* arrived after the dispatch step
C22_Witness ==
    /\ reentries = 0
    /\ \E i \in Completions :
          /\ i > 1
          /\ Len(stepLog[i].queue) = 3
          /\ Len(stepLog[i - 1].queue) = 1

\* the dispatch steps of the log
Dispatches == {i \in 1..Len(stepLog) : stepLog[i].step = "dispatch"}

\* the elements of a queue
Queued(queue) == {queue[n] : n \in 1..Len(queue)}

\* dispatch step q is the first to run the request again that dispatch
\* step p has preempted
NextQuantum(p, q) ==
    /\ p \in Dispatches /\ q \in Dispatches
    /\ p < q
    /\ stepLog[p].left > 0
    /\ stepLog[q].id = stepLog[p].id
    /\ \A r \in Dispatches : p < r /\ r < q => stepLog[r].id # stepLog[p].id

\* C23: a request preempted after a quantum is behind every request queued
\* at that moment: before its next quantum each of them gets a dispatch
\* step, and no request that arrived later gets one
C23_RoundRobin ==
    \A p, q \in Dispatches :
        NextQuantum(p, q) =>
            /\ stepLog[p].queue[Len(stepLog[p].queue)] = stepLog[p].id
            /\ \A j \in Queued(stepLog[p].queue) \ {stepLog[p].id} :
                  \E r \in Dispatches : p < r /\ r < q /\ stepLog[r].id = j
            /\ \A r \in Dispatches :
                  p < r /\ r < q => stepLog[r].id \in Queued(stepLog[p].queue)

\* the same, on runs without a request() issued from a reply()
C23_NoReentry == reentries = 0 => C23_RoundRobin

\* a request was preempted with another one queued, a third arrived before
\* its next quantum and was dispatched after it
C23_Witness ==
    \E p, q \in Dispatches :
        /\ NextQuantum(p, q)
        /\ Len(stepLog[p].queue) = 2
        /\ \E k \in RequestIds \ Queued(stepLog[p].queue) :
              /\ requests[k].arrival >= stepLog[p].at
              /\ k \in Queued(stepLog[q].queue)
              /\ \E r \in Dispatches : r > q /\ stepLog[r].id = k

(***************************************************************************)
(* Claims about the autoscaler, checked under SpecScaler.                  *)
(***************************************************************************)
\* the assignments of autoScaleStatus the last call made, but the first
\* one of a new backend
Changes == {i \in 1..Len(calls) : calls[i].op = "set" /\ calls[i].by # "addBackend"}

\* the edges Stopped->Starting->Started->Stopping->Stopped
LegalEdge(from, to) ==
    <<from, to>> \in { <<STOPPED, STARTING>>, <<STARTING, STARTED>>,
                       <<STARTED, STOPPING>>, <<STOPPING, STOPPED>> }

\* step i is made by the completion callback of backend b itself: it is the
\* first step of the callback the kernel invoked for b, or it follows the
\* removeBackend(b, callback) whose callback the load balancer called at once
OwnCompletion(i, b) ==
    \/ i = 1 /\ lastCall.op = calls[i].by /\ lastCall.arg = IntValue(b)
    \/ /\ i > 1
       /\ calls[i].by = "shutdownCompleted"
       /\ calls[i - 1].op = "lb.removeBackend"
       /\ calls[i - 1].b = b

\* C11: every change of a backend's autoScaleStatus follows an edge of
\* Stopped->Starting->Started->Stopping->Stopped; scaleUp selects only a
\* Stopped backend and scaleDown only a Started one, and a backend leaves
\* Starting or Stopping only through its own completion callback
C11_LegalTransitions ==
    \A i \in Changes :
        /\ LegalEdge(calls[i].from, calls[i].to)
        /\ calls[i].by = "scaleUp" => calls[i].from = STOPPED
        /\ calls[i].by = "scaleDown" => calls[i].from = STARTED
        /\ calls[i].from \in {STARTING, STOPPING} =>
              /\ calls[i].by \in {"startupCompleted", "shutdownCompleted"}
              /\ OwnCompletion(i, calls[i].b)

\* one callback took a backend through Starting->Started->Stopping->Stopped
C11_Witness ==
    /\ lastCall.op = "startupCompleted"
    /\ Cardinality(Changes) >= 3
    /\ \E i \in Changes : calls[i].from = STOPPING /\ calls[i].b = lastCall.arg.n

\* the largest element of a set of numbers
MaxOf(S) == CHOOSE i \in S : \A j \in S : j <= i

\* the fleet as step i of the last call found it
FleetAt(i) ==
    [ b \in 1..Len(before.fleet) |->
        LET earlier == {j \in 1..(i - 1) : calls[j].op = "set" /\ calls[j].b = b}
        IN  IF earlier = {} THEN before.fleet[b] ELSE calls[MaxOf(earlier)].to ]

\* C12: scaleUp() starts the first backend in fleet order that is Stopped
\* and scaleDown() stops the last one in fleet order that is Started; with
\* [A,B,C] Stopped the scaleUp() calls start A, B, C in this order, and
\* with all three Started a scaleDown() stops C
C12_FifoLifo ==
    /\ \A i \in Changes :
          LET b == calls[i].b
              fleet == FleetAt(i)
          IN  /\ calls[i].by = "scaleUp" =>
                    fleet[b] = STOPPED /\ \A j \in 1..(b - 1) : fleet[j] # STOPPED
              /\ calls[i].by = "scaleDown" =>
                    fleet[b] = STARTED /\ \A j \in (b + 1)..Len(fleet) : fleet[j] # STARTED
    /\ lastCall.op = "scaleUp" /\ lastCall.outcome = "returned" =>
          /\ before.fleet = <<STOPPED, STOPPED, STOPPED>> => calls[1].b = 1
          /\ before.fleet = <<STARTING, STOPPED, STOPPED>> => calls[1].b = 2
          /\ before.fleet = <<STARTING, STARTING, STOPPED>> => calls[1].b = 3
    /\ lastCall.op = "scaleDown" /\ before.fleet = <<STARTED, STARTED, STARTED>> =>
          calls[1].b = 3 /\ calls[1].to = STOPPING

\* A, B and C were started and a scaleDown() has put C into Stopping
C12_Witness ==
    /\ lastCall.op = "scaleDown"
    /\ before.fleet = <<STARTED, STARTED, STARTED>>
    /\ backends = <<STARTED, STARTED, STOPPING>>
    /\ startedOrder = <<1, 2>>

\* the last call is a scaleDown() that found a backend to stop
Stopped(b) ==
    /\ lastCall.op = "scaleDown"
    /\ Len(calls) > 0
    /\ calls[1].op = "set"
    /\ calls[1].b = b

\* the backends that were Started when the last call began became so in
\* fleet order
StartedInFleetOrder ==
    \A i, j \in 1..Len(before.order) : i < j => before.order[i] < before.order[j]

OnlyRaised ==
    /\ lastCall.outcome = "RuntimeError"
    /\ Len(calls) = 1
    /\ calls[1].op = "raise"
    /\ backends = before.fleet
    /\ startedOrder = before.order
    /\ events = before.events

\* C14: scaleDown() when no backend is Started and scaleUp() when no backend
\* is Stopped raise the fatal RuntimeError and change nothing: no backend's
\* state, no kernel event, no call of the load balancer or the controller
C14_FatalGuard ==
    /\ lastCall.op = "scaleDown" /\ ~(\E b \in 1..Len(before.fleet) : before.fleet[b] = STARTED)
          => OnlyRaised
    /\ lastCall.op = "scaleUp" /\ ~(\E b \in 1..Len(before.fleet) : before.fleet[b] = STOPPED)
          => OnlyRaised

\* scaleUp() was called on a fleet of backends that are all Starting,
\* Started or Stopping, one of them Stopping
C14_Witness ==
    /\ lastCall.op = "scaleUp"
    /\ lastCall.outcome = "RuntimeError"
    /\ Len(before.fleet) >= 2
    /\ \E b \in 1..Len(before.fleet) : before.fleet[b] = STOPPING
    /\ \A b \in 1..Len(before.fleet) : before.fleet[b] # STOPPED

\* how many backends of the fleet have status s
NumberOf(fleet, s) == Cardinality({b \in 1..Len(fleet) : fleet[b] = s})

\* the last call is scaleTo(target) with 0 <= target <= fleet size, made
\* under the default control strategy
ScaledTo(target) ==
    /\ controller = "default"
    /\ lastCall.op = "scaleTo"
    /\ lastCall.arg = IntValue(target)
    /\ target <= Len(before.fleet)

\* C15 as stated: with the default strategy scaleTo(target), 0 <= target <=
\* fleet size, returns and numStarting + numStarted == target on return
C15_ScaleToReaches ==
    \A target \in 0..MaxBackends :
        ScaledTo(target) =>
            /\ lastCall.outcome = "returned"
            /\ NumberOf(backends, STARTING) + NumberOf(backends, STARTED) = target

\* C15, amended: with the default strategy scaleTo(target), 0 <= target <=
\* fleet size, returns with numStarting + numStarted == target when
\* numStarting <= target <= fleet size - numStopping held at the call, and
\* otherwise raises the fatal RuntimeError of scaleUp() or scaleDown()
C15_ScaleToReachesOrFails ==
    \A target \in 0..MaxBackends :
        ScaledTo(target) =>
            IF /\ NumberOf(before.fleet, STARTING) <= target
               /\ target <= Len(before.fleet) - NumberOf(before.fleet, STOPPING)
            THEN /\ lastCall.outcome = "returned"
                 /\ NumberOf(backends, STARTING) + NumberOf(backends, STARTED) = target
            ELSE lastCall.outcome = "RuntimeError"

\* scaleTo(1) has returned after it stopped two of three Started backends
C15_Witness ==
    /\ ScaledTo(1)
    /\ lastCall.outcome = "returned"
    /\ before.fleet = <<STARTED, STARTED, STARTED>>
    /\ NumberOf(backends, STARTED) = 1

\* the last call returned without a step, and left the fleet and the
\* kernel's events as they were
OnlyReturned ==
    /\ lastCall.outcome = "returned"
    /\ calls = <<>>
    /\ backends = before.fleet
    /\ startedOrder = before.order
    /\ events = before.events

\* C16: scaleTo() with a negative target raises the fatal error before any
\* backend changes state; with None as target it returns without changing
\* a backend's state or scheduling an event
C16_ScaleToRejects ==
    /\ lastCall.op = "scaleTo" /\ lastCall.arg.kind = "int" /\ lastCall.arg.n < 0
          => OnlyRaised
    /\ lastCall.op = "scaleTo" /\ lastCall.arg = None
          => OnlyReturned

\* scaleTo(-1) was called on a fleet with a Started backend
C16_Witness ==
    /\ lastCall.op = "scaleTo"
    /\ lastCall.arg = IntValue(0 - 1)
    /\ lastCall.outcome = "RuntimeError"
    /\ \E b \in 1..Len(before.fleet) : before.fleet[b] = STARTED

\* scaleTo(None) was called on a fleet with a Started and a Starting backend
C16_NoneWitness ==
    /\ lastCall.op = "scaleTo"
    /\ lastCall.arg = None
    /\ \E b \in 1..Len(before.fleet) : before.fleet[b] = STARTED
    /\ \E b \in 1..Len(before.fleet) : before.fleet[b] = STARTING

\* the scale actions of the last call: backends moved Stopped -> Starting
Ups == {i \in Changes : calls[i].from = STOPPED /\ calls[i].to = STARTING}
\* the scale actions of the last call: backends moved Started -> Stopping
Downs == {i \in Changes : calls[i].from = STARTED /\ calls[i].to = STOPPING}
\* every hook the last call invoked returned 0
HooksQuiet == \A i \in 1..Len(calls) : calls[i].op \in {"onStatus", "onControlPeriod"} => calls[i].to = 0
\* the last call was scaleBy(by) with by an integer
ScaledBy == lastCall.op = "scaleBy" /\ lastCall.arg.kind = "int"

\* C17 (as stated): for any strategy a scaleBy(delta) that returns has
\* caused exactly |delta| scale actions, all in the direction of delta;
\* scaleBy(0) changes nothing; a non-finite or undefined delta changes
\* nothing and raises no error
C17_ScaleByExact ==
    /\ ScaledBy /\ lastCall.outcome = "returned" /\ lastCall.arg.n > 0
          => Cardinality(Ups) = lastCall.arg.n /\ Downs = {}
    /\ ScaledBy /\ lastCall.outcome = "returned" /\ lastCall.arg.n < 0
          => Cardinality(Downs) = 0 - lastCall.arg.n /\ Ups = {}
    /\ ScaledBy /\ lastCall.arg.n = 0 => OnlyReturned
    /\ lastCall.op = "scaleBy" /\ lastCall.arg.kind # "int" => OnlyReturned

\* C17 (amended): a scaleBy(delta) that returns has caused at least |delta|
\* scale actions in the direction of delta, and exactly |delta|, none in
\* the other direction, when every hook it invoked returned 0; scaleBy(0)
\* and scaleBy(NaN) change nothing; scaleBy(None) raises, and
\* scaleBy(+-inf) scales until scaleUp() or scaleDown() raises
C17_ScaleByAtLeast ==
    /\ ScaledBy /\ lastCall.outcome = "returned" /\ lastCall.arg.n > 0
          => /\ Cardinality(Ups) >= lastCall.arg.n
             /\ HooksQuiet => Cardinality(Ups) = lastCall.arg.n /\ Downs = {}
    /\ ScaledBy /\ lastCall.outcome = "returned" /\ lastCall.arg.n < 0
          => /\ Cardinality(Downs) >= 0 - lastCall.arg.n
             /\ HooksQuiet => Cardinality(Downs) = 0 - lastCall.arg.n /\ Ups = {}
    /\ ScaledBy /\ lastCall.arg.n = 0 => OnlyReturned
    /\ lastCall.op = "scaleBy" /\ lastCall.arg = NaN => OnlyReturned
    /\ lastCall.op = "scaleBy" /\ lastCall.arg = None
          => /\ lastCall.outcome \in {"TypeError", "RuntimeError"}
             /\ Ups = {} \/ ~HooksQuiet
             /\ HooksQuiet => Cardinality(Downs) <= 1
    /\ lastCall.op = "scaleBy" /\ lastCall.arg.kind = "inf"
          => /\ lastCall.outcome = "RuntimeError"
             /\ HooksQuiet /\ lastCall.arg.n > 0
                   => Count(backends, STOPPED) = 0 /\ Downs = {}
             /\ HooksQuiet /\ lastCall.arg.n < 0
                   => Count(backends, STARTED) = 0 /\ Ups = {}

\* scaleBy(2) returned after three scale-ups, one of them a hook's reaction
C17_Witness ==
    /\ ScaledBy /\ lastCall.arg.n = 2 /\ lastCall.outcome = "returned"
    /\ Cardinality(Ups) = 3
    /\ ~HooksQuiet

\* scaleBy(-2) returned after exactly two scale-downs, every hook returning 0
C17_QuietWitness ==
    /\ ScaledBy /\ lastCall.arg.n = 0 - 2 /\ lastCall.outcome = "returned"
    /\ Cardinality(Downs) = 2
    /\ HooksQuiet

\* scaleBy(None) stopped a backend and then raised TypeError
C17_NoneWitness ==
    /\ lastCall.op = "scaleBy" /\ lastCall.arg = None
    /\ lastCall.outcome = "TypeError"
    /\ Cardinality(Downs) = 1

\* the pending startupCompleted events of backend b
Startups(b) == {e \in events : e.cb = Callback("startupCompleted", b)}
\* the steps of the last call that register a backend with the load balancer
Registrations == {i \in 1..Len(calls) : calls[i].op = "lb.addBackend"}

\* scaleUp(): the chosen backend is set to Starting, and its completion is
\* scheduled at the time of the call plus the startup delay
StartupScheduled ==
    \A i \in 1..Len(calls) :
        calls[i].op = "sim.add" /\ calls[i].by = "scaleUp"
        => /\ i > 1
           /\ calls[i - 1] = Step("set", "scaleUp", calls[i].b, STOPPED, STARTING, <<>>)
           /\ \E e \in Startups(calls[i].b) : e.time = lastCall.at + calls[i].to

\* a backend is Starting exactly while its completion is pending, and the
\* completion is never overdue
StartingWhilePending ==
    \A b \in 1..Len(backends) :
        /\ backends[b] = STARTING <=> Startups(b) # {}
        /\ Cardinality(Startups(b)) <= 1
        /\ \A e \in Startups(b) : e.time >= now

\* startupCompleted() of backend b, fired at the time it was scheduled for:
\* Started, then registered, then onStatus with the counts that include b
\* as Started, then scaleBy with the delta onStatus returned
StartupCompletes ==
    lastCall.op = "startupCompleted"
    => LET b == lastCall.arg.n IN
       /\ lastCall.at = now
       /\ before.fleet[b] = STARTING
       /\ Len(calls) >= 3
       /\ calls[1] = Step("set", "startupCompleted", b, STARTING, STARTED, <<>>)
       /\ calls[2] = Step("lb.addBackend", "startupCompleted", b, 0, 0, <<>>)
       /\ calls[3].op = "onStatus" /\ calls[3].by = "startupCompleted"
       /\ calls[3].status = GetStatus([before.fleet EXCEPT ![b] = STARTED])
       /\ calls[3].to = 0 => Len(calls) = 3
       /\ calls[3].to > 0 => Len(calls) > 3 /\ calls[4].by = "scaleUp"
       /\ calls[3].to < 0 => Len(calls) > 3
                               /\ calls[4] = Step("set", "scaleDown", calls[4].b,
                                                  STARTED, STOPPING, <<>>)

\* C18: the backend scaleUp() chooses at t with startup delay d is Starting
\* from t until t + d and becomes Started at t + d; loadBalancer.addBackend
\* is called for it once, then, after the status is set and before onStatus
\* gets the updated counts, and the delta onStatus returns goes to scaleBy
C18_StartupCompletion ==
    /\ StartupScheduled
    /\ StartingWhilePending
    /\ StartupCompletes
    /\ Registrations # {} => lastCall.op = "startupCompleted" /\ Registrations = {2}

\* a backend started with delay 1 at time 0 completed at time 1, and the
\* controller answered its onStatus with a scale-up
C18_Witness ==
    /\ lastCall.op = "startupCompleted"
    /\ lastCall.at = 1
    /\ Len(calls) > 3
    /\ calls[3].to = 1
    /\ calls[4] = Step("set", "scaleUp", calls[4].b, STOPPED, STARTING, <<>>)

\* the sum of the four counts getStatus() returns for fleet
StatusSum(fleet) ==
    LET status == GetStatus(fleet) IN
    status[STOPPED] + status[STARTING] + status[STARTED] + status[STOPPING]

\* C20: in every reachable state numStopped + numStarting + numStarted +
\* numStopping equals the number of registered backends, and the assertion
\* of getStatus() has failed in no handler: every status handed to onStatus
\* sums to the fleet size
C20_StatusSumsToFleet ==
    /\ \A b \in 1..Len(backends) : backends[b] \in {STOPPED, STARTING, STARTED, STOPPING}
    /\ StatusSum(backends) = Len(backends)
    /\ StatusAsserted(backends)
    /\ lastCall.outcome # "AssertionError"
    /\ \A i \in 1..Len(calls) :
          calls[i].op = "onStatus"
          => calls[i].status[STOPPED] + calls[i].status[STARTING]
             + calls[i].status[STARTED] + calls[i].status[STOPPING] = Len(backends)

\* three backends in three different states, one of them Stopping, after a
\* handler that reported the status to the controller
C20_Witness ==
    /\ Len(backends) = 3
    /\ Count(backends, STOPPING) = 1
    /\ Count(backends, STARTING) = 1
    /\ Count(backends, STARTED) = 1
    /\ \E i \in 1..Len(calls) : calls[i].op = "onStatus" /\ calls[i].status[STOPPING] = 1

(***************************************************************************)
(* A claim about the cascade of scale actions within one kernel event,     *)
(* checked under SpecCascade.                                              *)
(***************************************************************************)
\* the scale actions of the last call or callback
ScaleActions == {i \in Changes : calls[i].by \in {"scaleUp", "scaleDown"}}

\* the load balancer has called a drain callback from within removeBackend()
SyncDrained ==
    \E i \in 1..Len(calls) :
        /\ calls[i].op = "set"
        /\ calls[i].by = "shutdownCompleted"
        /\ ~(i = 1 /\ lastCall.op = "shutdownCompleted")

\* the last call was scaleBy(None), which raises TypeError
NoDelta == lastCall.op = "scaleBy" /\ lastCall.arg = None

\* C24: for any control strategy, when drains complete only through later
\* kernel events, the cascade scaleBy -> scaleUp/scaleDown -> onStatus ->
\* scaleBy within one kernel event performs at most fleet-size scale
\* actions and then returns or raises the fatal RuntimeError; the calls of
\* scaleUp()/scaleDown() in progress are at most one per scale action, plus
\* the call that raises
C24_CascadeBounded ==
    ~SyncDrained /\ ~NoDelta =>
        /\ Cardinality(ScaleActions) <= Len(backends)
        /\ lastCall.outcome \in {"none", "returned", "RuntimeError"}
        /\ lastCall.depth <= Cardinality(ScaleActions) + 1
        /\ lastCall.outcome = "returned" => lastCall.depth <= Cardinality(ScaleActions)

\* without the condition on the drains the bound does not hold
C24_BoundedAnyDrain ==
    ~NoDelta => Cardinality(ScaleActions) <= Len(backends)

\* a controller that never stops asking for one more backend has started the
\* three backends of the fleet in one cascade, four calls deep, which the
\* fatal error ended
C24_Witness ==
    /\ controller = "up"
    /\ Len(backends) = 3
    /\ ~SyncDrained
    /\ Cardinality(Ups) = 3
    /\ lastCall.depth = 4
    /\ lastCall.outcome = "RuntimeError"

\* a cascade of scale actions in both directions has ended with the fatal
\* error, every backend of the fleet used
C24_MixedWitness ==
    /\ ~SyncDrained
    /\ Ups # {} /\ Downs # {}
    /\ Cardinality(ScaleActions) = Len(backends)
    /\ lastCall.outcome = "RuntimeError"

(***************************************************************************)
(* A claim about the replica and the autoscaler together, checked under    *)
(* SpecReplica and under SpecScaler.                                       *)
(***************************************************************************)
\* the pending events of callback cb
PendingFor(cb) == {e \in events : e.cb = cb}

\* C19: with the replica and the autoscaler scheduling their callbacks with
\* add (report loops, control loop, dispatch and completion steps), the
\* kernel holds at most one pending event per callback identity
C19_OnePendingPerCallback == \A e \in events : PendingFor(e.cb) = {e}

\* the same, on runs without a request() issued from a reply()
C19_NoReentry == reentries = 0 => C19_OnePendingPerCallback
====
